---- MODULE Spec2Model ----
(***************************************************************************)
(* Mappings editor field normalizer (lib/utils.ts): normalize, deNormalize *)
(* and updateFieldsPathAfterFieldNameChange over bounded mapping trees.    *)
(*                                                                         *)
(* JavaScript objects are functions from string keys to values; a key      *)
(* whose value is undefined is left out of the DOMAIN.  Arrays are         *)
(* sequences.  Generated ids are the strings "id1", "id2", ...             *)
(***************************************************************************)
EXTENDS Integers, Sequences, FiniteSets, TLC

VARIABLES
  mappings,  \* the document given to normalize
  insertion, \* the order in which the keys of the document were inserted
  loaded,    \* the NormalizedFields that normalize returned
  fields,    \* the NormalizedFields the editor holds: loaded, then renamed
  output,    \* the document that deNormalize returned
  pc,        \* the step reached: "input", "normalized", "denormalized", ...
  hook       \* the state of a mounted useFetchOccurrencesRange

vars == <<mappings, insertion, loaded, fields, output, pc, hook>>

(* ---------------------------------------------------------------------- *)
(* Bounds                                                                  *)
(* ---------------------------------------------------------------------- *)

\* largest number of fields (at all levels together) of an input mapping
MaxFields == 3

\* deepest nesting of the objects given to stripUndefinedValues
MaxDepth == 3

\* number of invocations of fetchOccurrences on one mounted hook
MaxCalls == 3

(* ---------------------------------------------------------------------- *)
(* JavaScript values                                                       *)
(* ---------------------------------------------------------------------- *)

\* the object {}
EmptyObject == [k \in {} |-> 0]

Has(obj, key) == key \in DOMAIN obj

\* { ...obj } without the listed keys (object rest destructuring)
Omit(obj, keys) == [k \in (DOMAIN obj) \ keys |-> obj[k]]

\* { ...obj, [key]: value }
Put(obj, key, value) == [k \in (DOMAIN obj) \cup {key} |-> IF k = key THEN value ELSE obj[k]]

Max(a, b) == IF a > b THEN a ELSE b

\* field names of the input documents, in ascending order of their UTF-16
\* code units ("a" is a prefix of "a.a")
NameOrder == <<"a", "a.a">>

Names == {NameOrder[i] : i \in 1..Len(NameOrder)}

NameRank(n) == CHOOSE i \in 1..Len(NameOrder) : NameOrder[i] = n

\* the string comparisons a < b and a > b on names
StrLess(a, b) == NameRank(a) < NameRank(b)

StrGreater(a, b) == NameRank(a) > NameRank(b)

(* ---------------------------------------------------------------------- *)
(* lib/utils.ts                                                            *)
(* ---------------------------------------------------------------------- *)

\* the value undefined, where an operator has to return or receive it
Undefined == "undefined"

\* a generator whose third and later identifiers repeat the second
getUniqueIdRepeating(n) == "id" \o ToString(IF n > 2 THEN 2 ELSE n)

\* uuidv4(): the n-th identifier generated; identifiers never repeat
getUniqueId(n) == "id" \o ToString(n)

fieldsWithoutMultiFields ==
  { "aggregate_metric_double", "constant_keyword", "flattened", "geo_shape",
    "join", "percolator", "point", "shape" }

\* a classification that takes only object for a type with properties
getChildFieldsNameObjectOnly(dataType) ==
  IF dataType \in fieldsWithoutMultiFields THEN Undefined
  ELSE IF dataType = "object" THEN "properties"
  ELSE "fields"

getChildFieldsName(dataType) ==
  IF dataType \in fieldsWithoutMultiFields THEN Undefined
  ELSE IF dataType = "object" \/ dataType = "nested" THEN "properties"
  ELSE "fields"

\* field.type, undefined when the key is missing
TypeOf(field) == IF Has(field, "type") THEN field.type ELSE Undefined

\* Boolean(field[key]) && Object.keys(field[key]).length > 0
HasEntries(field, key) == Has(field, key) /\ DOMAIN field[key] # {}

\* the flags are computed as for a field that is no multi-field
getFieldMetaOfField(field, isMultiField) ==
  LET childFieldsName == getChildFieldsName(TypeOf(field))
      canHaveChildFields == childFieldsName = "properties"
      canHaveMultiFields == childFieldsName = "fields"
  IN  [ canHaveChildFields |-> canHaveChildFields,
        hasChildFields     |-> canHaveChildFields /\ HasEntries(field, childFieldsName),
        canHaveMultiFields |-> canHaveMultiFields,
        hasMultiFields     |-> canHaveMultiFields /\ HasEntries(field, childFieldsName),
        isExpanded         |-> FALSE ]
      @@ (IF childFieldsName = Undefined THEN EmptyObject
          ELSE [childFieldsName |-> childFieldsName])

getFieldMeta(field, isMultiField) ==
  LET childFieldsName == getChildFieldsName(TypeOf(field))
      canHaveChildFields ==
        IF isMultiField THEN FALSE ELSE childFieldsName = "properties"
      hasChildFields ==
        IF isMultiField THEN FALSE
        ELSE canHaveChildFields /\ HasEntries(field, childFieldsName)
      canHaveMultiFields ==
        IF isMultiField THEN FALSE ELSE childFieldsName = "fields"
      hasMultiFields ==
        IF isMultiField THEN FALSE
        ELSE canHaveMultiFields /\ HasEntries(field, childFieldsName)
  IN  [ canHaveChildFields |-> canHaveChildFields,
        hasChildFields     |-> hasChildFields,
        canHaveMultiFields |-> canHaveMultiFields,
        hasMultiFields     |-> hasMultiFields,
        isExpanded         |-> FALSE ]
      @@ (IF childFieldsName = Undefined THEN EmptyObject
          ELSE [childFieldsName |-> childFieldsName])

\* path.join('.')
RECURSIVE Join(_)
Join(path) ==
  IF Len(path) = 0 THEN ""
  ELSE IF Len(path) = 1 THEN path[1]
  ELSE path[1] \o "." \o Join(Tail(path))

\* the keys of an object that are not field names, in some fixed order
RECURSIVE OtherKeys(_)
OtherKeys(obj) ==
  IF DOMAIN obj = {} THEN <<>>
  ELSE LET k == CHOOSE x \in DOMAIN obj : TRUE
       IN  <<k>> \o OtherKeys(Omit(obj, {k}))

\* Object.entries(props): the keys of an object in insertion order; the
\* field names of a document come in the order the document was written in
ObjectKeys(obj) ==
  IF DOMAIN obj \cap Names = {} THEN OtherKeys(obj)
  ELSE SelectSeq(insertion, LAMBDA k : k \in DOMAIN obj) \o OtherKeys(Omit(obj, Names))

\* the entries are left in insertion order
SortKeysUnsorted(keys) == keys

\* entries.sort(([a], [b]) => (a > b ? 1 : a < b ? -1 : 0)), a stable sort
RECURSIVE SortKeys(_)
SortKeys(keys) ==
  IF Len(keys) <= 1 THEN keys
  ELSE LET sorted == SortKeys(Tail(keys))
           before == SelectSeq(sorted, LAMBDA b : StrGreater(keys[1], b))
           after  == SelectSeq(sorted, LAMBDA b : ~StrGreater(keys[1], b))
       IN  before \o <<keys[1]>> \o after

\* the children stay at the depth of their parent
NextDepthSame(meta, nestedDepth) == nestedDepth

\* nextDepth of normalizeFields
NextDepth(meta, nestedDepth) ==
  IF meta.canHaveChildFields \/ meta.canHaveMultiFields
  THEN nestedDepth + 1 ELSE nestedDepth

\* the running maximum is never raised
TrackMaxNestedDepthNever(maxNestedDepth, nextDepth) == maxNestedDepth

\* maxNestedDepth = Math.max(maxNestedDepth, nextDepth)
TrackMaxNestedDepth(maxNestedDepth, nextDepth) == Max(maxNestedDepth, nextDepth)

\* the type is added only when properties holds a field
InferTypeOfParents(field) ==
  IF ~Has(field, "type") /\ HasEntries(field, "properties")
  THEN Put(field, "type", "object")
  ELSE field

\* if (field.type === undefined && field.properties !== undefined)
\*   field.type = 'object'
InferType(field) ==
  IF ~Has(field, "type") /\ Has(field, "properties")
  THEN Put(field, "type", "object")
  ELSE field

(* normalizeFields: the reduce over the sorted entries of props.  st holds  *)
(* what the closure mutates: the map "to" with the insertion order of its   *)
(* keys, maxNestedDepth and the count of generated ids; ref is              *)
(* arrayToKeepRef.                                                          *)
RECURSIVE normalizeFields(_, _, _, _, _, _, _), normalizeEntries(_, _, _, _, _, _, _, _)

\* the parentId argument is dropped: every field is normalized as a root
normalizeFieldsAsRoots(props, st, paths, arrayToKeepRef, nestedDepth, isMultiField, parentId) ==
  normalizeEntries(SortKeys(ObjectKeys(props)), props, st, paths, arrayToKeepRef,
                   nestedDepth, isMultiField, Undefined)

normalizeFields(props, st, paths, arrayToKeepRef, nestedDepth, isMultiField, parentId) ==
  normalizeEntries(SortKeys(ObjectKeys(props)), props, st, paths, arrayToKeepRef,
                   nestedDepth, isMultiField, parentId)

normalizeEntries(names, props, st, paths, arrayToKeepRef, nestedDepth, isMultiField, parentId) ==
  IF names = <<>> THEN [st |-> st, ref |-> arrayToKeepRef]
  ELSE
    LET propName == Head(names)
        value == props[propName]
        id == getUniqueId(st.nextId + 1)
        named == value @@ [name |-> propName]
        field == InferType(named)
        meta == getFieldMeta(field, isMultiField)
        recurse == meta.hasChildFields \/ meta.hasMultiFields
        nextDepth == NextDepth(meta, nestedDepth)
        st1 == [st EXCEPT !.nextId = @ + 1]
        sub ==
          IF recurse
          THEN normalizeFields(field[meta.childFieldsName],
                               [st1 EXCEPT !.maxNestedDepth = TrackMaxNestedDepth(@, nextDepth)],
                               paths \o <<propName>>, <<>>, nextDepth,
                               meta.canHaveMultiFields, id)
          ELSE [st |-> st1, ref |-> <<>>]
        normalizedField ==
          [ id           |-> id,
            nestedDepth  |-> nestedDepth,
            isMultiField |-> isMultiField,
            path         |-> IF Len(paths) > 0 THEN paths \o <<propName>> ELSE <<propName>>,
            source       |-> Omit(field, {"properties", "fields"}) ]
          @@ (IF parentId = Undefined THEN EmptyObject ELSE [parentId |-> parentId])
          @@ meta
          @@ (IF recurse THEN [childFields |-> sub.ref] ELSE EmptyObject)
        st2 == [sub.st EXCEPT !.to = Put(@, id, normalizedField),
                              !.order = Append(@, id)]
    IN  normalizeEntries(Tail(names), props, st2, paths, Append(arrayToKeepRef, id),
                         nestedDepth, isMultiField, parentId)

\* find compares the path array itself with the string: nothing is found
findByPathUnjoined(byId, order, path) == Undefined

\* find gives the dotted path of the field found instead of its id
findByPathAsPath(byId, order, path) ==
  IF path # Undefined /\ \E i \in 1..Len(order) : Join(byId[order[i]].path) = path
  THEN path ELSE Undefined

\* Object.values(byId).find(f => f.path.join('.') === path): the id found, or undefined
RECURSIVE findByPath(_, _, _)
findByPath(byId, order, path) ==
  IF order = <<>> \/ path = Undefined THEN Undefined
  ELSE IF Join(byId[Head(order)].path) = path THEN Head(order)
  ELSE findByPath(byId, Tail(order), path)

RECURSIVE replaceAliasPathEntries(_, _, _, _)

\* the alias is added to the aliases map outside the test of aliasTargetField
replaceAliasPathEntriesUnguarded(todo, order, byId, aliases) ==
  IF todo = <<>> THEN [byId |-> byId, aliases |-> aliases]
  ELSE
    LET id == Head(todo)
        field == byId[id]
        target ==
          IF Has(field.source, "path")
          THEN findByPath(byId, order, field.source.path)
          ELSE Undefined
        key == IF target # Undefined THEN target ELSE field.source.path
    IN  IF TypeOf(field.source) = "alias" /\ Has(field.source, "path")
        THEN replaceAliasPathEntries(
               Tail(todo), order,
               [byId EXCEPT ![id].source.path = key],
               Put(aliases, key,
                   Append(IF Has(aliases, key) THEN aliases[key] ELSE <<>>, id)))
        ELSE replaceAliasPathEntries(Tail(todo), order, byId, aliases)

\* the forEach of replaceAliasPathByAliasId over the entries left to visit
replaceAliasPathEntries(todo, order, byId, aliases) ==
  IF todo = <<>> THEN [byId |-> byId, aliases |-> aliases]
  ELSE
    LET id == Head(todo)
        field == byId[id]
        target ==
          IF Has(field.source, "path")
          THEN findByPath(byId, order, field.source.path)
          ELSE Undefined
    IN  IF TypeOf(field.source) = "alias" /\ target # Undefined
        THEN replaceAliasPathEntries(
               Tail(todo), order,
               [byId EXCEPT ![id].source.path = target],
               Put(aliases, target,
                   Append(IF Has(aliases, target) THEN aliases[target] ELSE <<>>, id)))
        ELSE replaceAliasPathEntries(Tail(todo), order, byId, aliases)

replaceAliasPathByAliasId(byId, order) ==
  replaceAliasPathEntries(order, order, byId, EmptyObject)

\* the state normalizeFields starts from: to = {}, maxNestedDepth = 0
NewNormalizeState == [to |-> EmptyObject, order |-> <<>>, maxNestedDepth |-> 0, nextId |-> 0]

normalize(fieldsToNormalize) ==
  LET res == normalizeFields(fieldsToNormalize, NewNormalizeState, <<>>, <<>>, 0, FALSE, Undefined)
      resolved == replaceAliasPathByAliasId(res.st.to, res.st.order)
  IN  [ byId            |-> resolved.byId,
        aliases         |-> resolved.aliases,
        rootLevelFields |-> res.ref,
        maxNestedDepth  |-> res.st.maxNestedDepth ]

\* the forEach of replaceAliasIdByAliasPath over the alias ids of one target
RECURSIVE replaceAliasIdsOfTarget(_, _, _)
replaceAliasIdsOfTarget(aliasesIds, path, updatedById) ==
  IF aliasesIds = <<>> THEN updatedById
  ELSE
    LET id == Head(aliasesIds)
    IN  IF ~Has(updatedById, id)
        THEN replaceAliasIdsOfTarget(Tail(aliasesIds), path, updatedById)
        ELSE replaceAliasIdsOfTarget(
               Tail(aliasesIds), path,
               Put(updatedById, id,
                   [updatedById[id] EXCEPT !.source = Put(@, "path", path)]))

\* the forEach of replaceAliasIdByAliasPath over the entries of aliases
RECURSIVE replaceAliasIdEntries(_, _, _)
replaceAliasIdEntries(targets, aliases, updatedById) ==
  IF targets = <<>> THEN updatedById
  ELSE
    LET targetId == Head(targets)
        path == IF Has(updatedById, targetId) THEN Join(updatedById[targetId].path) ELSE ""
    IN  replaceAliasIdEntries(Tail(targets), aliases,
                              replaceAliasIdsOfTarget(aliases[targetId], path, updatedById))

\* the alias ids are left in source.path
replaceAliasIdByAliasPathSkipped(aliases, byId) == byId

replaceAliasIdByAliasPath(aliases, byId) ==
  replaceAliasIdEntries(ObjectKeys(aliases), aliases, byId)

\* deNormalizePaths(ids, to) of deNormalize, over the ids left to visit
RECURSIVE deNormalizePaths(_, _, _)
deNormalizePaths(ids, to, serializedFieldsById) ==
  IF ids = <<>> THEN to
  ELSE
    LET normalizedField == serializedFieldsById[Head(ids)]
        source == normalizedField.source
        field == Omit(source, {"name"})
        withChildren ==
          IF Has(normalizedField, "childFields")
          THEN Put(field, normalizedField.childFieldsName,
                   deNormalizePaths(normalizedField.childFields, EmptyObject,
                                    serializedFieldsById))
          ELSE field
    IN  deNormalizePaths(Tail(ids), Put(to, source.name, withChildren), serializedFieldsById)

deNormalize(normalized) ==
  deNormalizePaths(normalized.rootLevelFields, EmptyObject,
                   replaceAliasIdByAliasPath(normalized.aliases, normalized.byId))

\* a deNormalize whose replaceAliasIdByAliasPath writes the paths into the
\* entries of byId itself (const updatedById = byId, aliasField.source.path = path)
deNormalizeArgumentInPlace(normalized) ==
  [normalized EXCEPT
     !.byId = replaceAliasIdByAliasPath(normalized.aliases, normalized.byId)]

\* the NormalizedFields argument as deNormalize leaves it.  The call writes
\* to updatedById, a spread copy of byId whose alias entries are replaced by
\* fresh objects with a fresh source; to field, the rest copy of source; and
\* to the objects to and field[childFieldsName], created by the call.  None
\* of these is an object of the argument.
deNormalizeArgument(normalized) == normalized

\* updateFieldPath(_field, _paths) of updateFieldsPathAfterFieldNameChange;
\* children are read from byId, the entries are written to updatedById
RECURSIVE updateFieldPath(_, _, _, _), updateChildrenPath(_, _, _, _)

updateFieldPath(field, paths, byId, updatedById) ==
  LET name == field.source.name
      path == IF Len(paths) = 0 THEN <<name>> ELSE paths \o <<name>>
      updated == Put(updatedById, field.id, [field EXCEPT !.path = path])
  IN  IF field.hasChildFields \/ field.hasMultiFields
      THEN updateChildrenPath(field.childFields, paths \o <<name>>, byId, updated)
      ELSE updated

updateChildrenPath(childFields, paths, byId, updatedById) ==
  IF childFields = <<>> THEN updatedById
  ELSE updateChildrenPath(Tail(childFields), paths, byId,
                          updateFieldPath(byId[Head(childFields)], paths, byId, updatedById))

\* updatedById starts from {} instead of { ...byId }
updateFieldsPathOnlySubtree(field, byId) ==
  LET paths == IF Has(field, "parentId") THEN byId[field.parentId].path ELSE <<>>
      updatedById == updateFieldPath(field, paths, byId, EmptyObject)
  IN  [updatedFieldPath |-> updatedById[field.id].path, updatedById |-> updatedById]

\* only the renamed field gets its new path, its descendants keep theirs
updateFieldsPathNoDescendants(field, byId) ==
  LET paths == IF Has(field, "parentId") THEN byId[field.parentId].path ELSE <<>>
      path == paths \o <<field.source.name>>
  IN  [updatedFieldPath |-> path,
       updatedById |-> Put(byId, field.id, [field EXCEPT !.path = path])]

updateFieldsPathAfterFieldNameChange(field, byId) ==
  LET paths == IF Has(field, "parentId") THEN byId[field.parentId].path ELSE <<>>
      updatedById == updateFieldPath(field, paths, byId, byId)
  IN  [updatedFieldPath |-> updatedById[field.id].path, updatedById |-> updatedById]

\* Object.values(byId).reduce((max, f) => Math.max(max, f.nestedDepth), 0)
RECURSIVE maxDepthOf(_, _)
maxDepthOf(ids, byId) ==
  IF ids = <<>> THEN 0
  ELSE Max(maxDepthOf(Tail(ids), byId), byId[Head(ids)].nestedDepth)

getMaxNestedDepth(byId) == maxDepthOf(ObjectKeys(byId), byId)

\* getAllChildFields: the closure getChildFields pushes byId[fieldId] for
\* each listed child and recurses into it.  A listed id that byId does not
\* hold gives undefined, pushed and then read for hasChildFields in the
\* recursive call: a TypeError, which discards the array.  The result is
\* [threw, value].
RECURSIVE getChildFields(_, _, _), getChildFieldsOfEach(_, _, _)
getChildFieldsOfEach(ids, byId, to) ==
  IF ids = <<>> THEN [threw |-> FALSE, value |-> to]
  ELSE IF ~Has(byId, Head(ids)) THEN [threw |-> TRUE, value |-> <<>>]
  ELSE LET childField == byId[Head(ids)]
           below == getChildFields(childField, byId, Append(to, childField))
       IN  IF below.threw THEN below
           ELSE getChildFieldsOfEach(Tail(ids), byId, below.value)

getChildFields(_field, byId, to) ==
  IF _field.hasChildFields \/ _field.hasMultiFields
  THEN getChildFieldsOfEach(_field.childFields, byId, to)
  ELSE [threw |-> FALSE, value |-> to]

\* a traversal that returns the children and not the fields below them
getAllChildFieldsDirect(field, byId) ==
  IF field.hasChildFields \/ field.hasMultiFields
  THEN [threw |-> FALSE,
        value |-> [i \in 1..Len(field.childFields) |-> byId[field.childFields[i]]]]
  ELSE [threw |-> FALSE, value |-> <<>>]

getAllChildFields(field, byId) == getChildFields(field, byId, <<>>)

\* a collection that does not descend into the child fields
getAllDescendantAliasesOwn(field, nf, aliasesIds) ==
  IF Has(nf.aliases, field.id) THEN aliasesIds \o nf.aliases[field.id] ELSE aliasesIds

RECURSIVE getAllDescendantAliases(_, _, _), getAliasesOfEach(_, _, _)
getAliasesOfEach(ids, nf, aliasesIds) ==
  IF ids = <<>> THEN aliasesIds
  ELSE IF ~Has(nf.byId, Head(ids)) THEN getAliasesOfEach(Tail(ids), nf, aliasesIds)
  ELSE getAliasesOfEach(Tail(ids), nf,
                        getAllDescendantAliases(nf.byId[Head(ids)], nf, aliasesIds))

getAllDescendantAliases(field, nf, aliasesIds) ==
  LET hasAliases == Has(nf.aliases, field.id) /\ Len(nf.aliases[field.id]) > 0
  IN  IF ~hasAliases /\ ~field.hasChildFields /\ ~field.hasMultiFields
      THEN aliasesIds
      ELSE LET own == IF hasAliases THEN aliasesIds \o nf.aliases[field.id]
                      ELSE aliasesIds
           IN  IF Has(field, "childFields")
               THEN getAliasesOfEach(field.childFields, nf, own)
               ELSE own

\* the while (parent) loop of getFieldAncestors: byId[parentId] when the
\* field has a parentId, undefined otherwise
RECURSIVE ancestorsOf(_, _, _)
ancestorsOf(field, byId, ancestors) ==
  IF ~Has(field, "parentId") \/ ~Has(byId, field.parentId) THEN ancestors
  ELSE LET parent == byId[field.parentId]
       IN  ancestorsOf(parent, byId, Put(ancestors, parent.id, TRUE))

\* a walk that stops at the parent
getFieldAncestorsParentOnly(fieldId, byId) ==
  IF ~Has(byId[fieldId], "parentId") \/ ~Has(byId, byId[fieldId].parentId)
  THEN EmptyObject
  ELSE Put(EmptyObject, byId[byId[fieldId].parentId].id, TRUE)

\* fieldId is a key of byId (currentField.parentId is read at once)
getFieldAncestors(fieldId, byId) == ancestorsOf(byId[fieldId], byId, EmptyObject)

\* the outcome of a call: a returned value, or an error with its class and
\* the argument values that its message quotes
Returns(value) == [threw |-> FALSE, value |-> value, error |-> "", carries |-> <<>>]

Throws(error, carries) ==
  [threw |-> TRUE, value |-> EmptyObject, error |-> error, carries |-> carries]

\* constants/parameters_definition: one parameter of each shape that
\* getFieldConfig tells apart (with or without fieldConfig, with or without
\* props, a prop with or without fieldConfig)
PARAMETERS_DEFINITION ==
  [ boost |-> [fieldConfig |-> [label |-> "boost"]],
    properties |-> EmptyObject,
    dynamic |-> [fieldConfig |-> [label |-> "dynamic"], props |-> EmptyObject],
    fielddata_frequency_filter |->
      [props |-> [min |-> [fieldConfig |-> [label |-> "min"]],
                  max |-> EmptyObject]] ]

getFieldConfig(param, prop) ==
  IF prop # Undefined
  THEN IF ~Has(PARAMETERS_DEFINITION, param)
       THEN Throws("TypeError", <<>>)   \* undefined.props is read
       ELSE IF \/ ~Has(PARAMETERS_DEFINITION[param], "props")
               \/ ~Has(PARAMETERS_DEFINITION[param].props, prop)
       THEN Throws("Error", <<prop, param>>)
       ELSE IF Has(PARAMETERS_DEFINITION[param].props[prop], "fieldConfig")
       THEN Returns(PARAMETERS_DEFINITION[param].props[prop].fieldConfig)
       ELSE Returns(EmptyObject)
  ELSE IF Has(PARAMETERS_DEFINITION, param)
          /\ Has(PARAMETERS_DEFINITION[param], "fieldConfig")
       THEN Returns(PARAMETERS_DEFINITION[param].fieldConfig)
       ELSE Returns(EmptyObject)

shouldDeleteChildFieldsAfterTypeChange(oldType, newType) ==
  IF oldType = "text" /\ newType # "keyword" THEN TRUE
  ELSE IF oldType = "keyword" /\ newType # "text" THEN TRUE
  ELSE IF oldType = "object" /\ newType # "nested" THEN TRUE
  ELSE IF oldType = "nested" /\ newType # "object" THEN TRUE
  ELSE FALSE

(* The values given to stripUndefinedValues carry their JavaScript kind,   *)
(* so that a key can hold undefined: an object is a function from its keys *)
(* to such values.                                                         *)

JsUndefined == [kind |-> "undefined"]

JsNull == [kind |-> "null"]

JsBoolean(b) == [kind |-> "boolean", v |-> b]

JsNumber(n) == [kind |-> "number", v |-> n]

JsString(str) == [kind |-> "string", v |-> str]

JsArray(items) == [kind |-> "array", items |-> items]

JsDate == [kind |-> "date"]

JsObject(entries) == [kind |-> "object", entries |-> entries]

\* a function that drops every falsy value (if (!value) return acc)
stripUndefinedValuesFalsy(obj, recursive) ==
  LET falsy == {JsUndefined, JsNull, JsBoolean(FALSE), JsNumber(0), JsString("")}
  IN  [key \in {k \in DOMAIN obj : obj[k] \notin falsy} |-> obj[key]]

RECURSIVE stripUndefinedValues(_, _)
stripUndefinedValues(obj, recursive) ==
  [key \in {k \in DOMAIN obj : obj[k] # JsUndefined} |->
     LET value == obj[key]
     IN  IF value.kind \in {"array", "date", "null"} THEN value
         ELSE IF recursive /\ value.kind = "object"
         THEN JsObject(stripUndefinedValues(value.entries, recursive))
         ELSE value]

\* constants/data_types_definition: some main types and some sub-types
MAIN_DATA_TYPE_DEFINITION ==
  [ text |-> [label |-> "Text"],
    keyword |-> [label |-> "Keyword"],
    numeric |-> [label |-> "Numeric"],
    range |-> [label |-> "Range"],
    object |-> [label |-> "Object"],
    other |-> [label |-> "Other"] ]

SUB_TYPE_MAP_TO_MAIN ==
  [ byte |-> "numeric", integer |-> "numeric", date_range |-> "range" ]

\* SUB_TYPE_MAP_TO_MAIN[subType] ?? 'other'
getMainTypeFromSubType(subType) ==
  IF Has(SUB_TYPE_MAP_TO_MAIN, subType) THEN SUB_TYPE_MAP_TO_MAIN[subType]
  ELSE "other"

getTypeMetaFromSource(sourceType) ==
  IF ~Has(MAIN_DATA_TYPE_DEFINITION, sourceType)
  THEN LET mainType == getMainTypeFromSubType(sourceType)
       IN  IF mainType = ""
           THEN Throws("Error", <<sourceType>>)
           ELSE Returns([mainType |-> mainType, subType |-> sourceType])
  ELSE Returns([mainType |-> sourceType])

(* ---------------------------------------------------------------------- *)
(* no_results_suggestions/use_fetch_occurances_range.ts                     *)
(* ---------------------------------------------------------------------- *)

Invocations == 1..MaxCalls

\* the hook at its first render.  An AbortController is named by the
\* invocation that created it, 0 is the null of abortControllerRef; aborted
\* holds the controllers whose signal is aborted.  at, returned, setRange
\* and rangeAtUnmount record what the invocations did: where each one
\* stands, the occurrencesRange it returned, the invocations that called
\* setRange in order, and the range held when the component unmounted.
useFetchOccurrencesRange ==
  [ range              |-> Undefined,
    abortControllerRef |-> 0,
    aborted            |-> {},
    mountedRef         |-> TRUE,
    at                 |-> [i \in Invocations |-> "idle"],
    returned           |-> [i \in Invocations |-> Undefined],
    setRange           |-> <<>>,
    rangeAtUnmount     |-> Undefined ]

\* abortControllerRef.current?.abort()
Abort(h) ==
  IF h.abortControllerRef = 0 THEN h
  ELSE [h EXCEPT !.aborted = @ \cup {h.abortControllerRef}]

\* if (mountedRef.current) setRange(occurrencesRange); return occurrencesRange
SetRangeAndReturn(h, i, occurrencesRange) ==
  LET done == [h EXCEPT !.at[i] = "returned", !.returned[i] = occurrencesRange]
  IN  IF h.mountedRef
      THEN [done EXCEPT !.range = occurrencesRange, !.setRange = Append(@, i)]
      ELSE done

\* what the search of invocation i can settle with: an AbortError when its
\* signal is aborted, else a range, null or another error
SearchOutcomes(h, i) ==
  IF i \in h.aborted THEN {"AbortError"}
  ELSE {"range" \o ToString(i), "null", "Error"}

(* ---------------------------------------------------------------------- *)
(* Input documents: the Fields argument of normalize                       *)
(* ---------------------------------------------------------------------- *)

\* field definitions without children
LeafFields ==
  { EmptyObject,
    [type |-> "object"],
    [type |-> "text"],
    [type |-> "flattened"],
    [type |-> "alias", path |-> "a.a"],
    [type |-> "object", properties |-> EmptyObject] }

\* parameters of a field definition with children, and the key of its container
ParentFields ==
  { <<EmptyObject, "properties">>,
    <<[type |-> "object"], "properties">>,
    <<[type |-> "text"], "fields">>,
    <<[type |-> "object"], "fields">> }

RECURSIVE FieldsOfSize(_), TreesOfSize(_, _)

\* all Fields objects with exactly n fields whose keys are taken from names
TreesOfSize(names, n) ==
  IF n = 0 THEN {EmptyObject}
  ELSE UNION {
         UNION {
           {(first :> f) @@ rest :
              f \in FieldsOfSize(j),
              rest \in TreesOfSize({m \in names : StrLess(first, m)}, n - j)}
           : j \in 1..n}
         : first \in names}

\* all Field definitions (without name) that hold n fields, themselves included
FieldsOfSize(n) ==
  IF n = 1 THEN LeafFields
  ELSE {pk[1] @@ (pk[2] :> children) :
          pk \in ParentFields, children \in TreesOfSize(Names, n - 1)}

InputMappings == UNION {TreesOfSize(Names, n) : n \in 0..MaxFields}

\* the orders in which the field names can have been inserted
KeyOrders ==
  {order \in [1..Len(NameOrder) -> Names] :
     \A i, j \in 1..Len(NameOrder) : order[i] = order[j] => i = j}

Init ==
  /\ mappings \in InputMappings
  /\ insertion = NameOrder
  /\ loaded = normalize(EmptyObject)
  /\ fields = loaded
  /\ output = EmptyObject
  /\ hook = useFetchOccurrencesRange
  /\ pc = "input"

\* the editor loads a document: fields = normalize(mappings)
Normalize ==
  /\ pc = "input"
  /\ loaded' = normalize(mappings)
  /\ fields' = loaded'
  /\ pc' = "normalized"
  /\ UNCHANGED <<mappings, insertion, output, hook>>

\* a field is renamed: the edited field carries the new source.name and the
\* updatedById of updateFieldsPathAfterFieldNameChange replaces fields.byId
Rename(id, newName) ==
  /\ pc = "normalized"
  /\ id \in DOMAIN fields.byId
  /\ newName # fields.byId[id].source.name
  /\ LET edited == [fields.byId[id] EXCEPT !.source.name = newName]
         res == updateFieldsPathAfterFieldNameChange(edited, fields.byId)
     IN  fields' = [fields EXCEPT !.byId = res.updatedById]
  /\ UNCHANGED <<mappings, insertion, loaded, output, pc, hook>>

\* the editor serializes its state: output = deNormalize(fields)
DeNormalize ==
  /\ pc = "normalized"
  /\ output' = deNormalize(fields)
  /\ fields' = deNormalizeArgument(fields)
  /\ pc' = "denormalized"
  /\ UNCHANGED <<mappings, insertion, loaded, hook>>

Next ==
  \/ Normalize
  \/ \E id \in DOMAIN fields.byId, newName \in Names : Rename(id, newName)
  \/ DeNormalize

Spec == Init /\ [][Next]_vars

(* The same document written with its keys in two orders: normalize is run  *)
(* on it once per order; loaded holds the first result, fields the second.  *)

InitOrder ==
  /\ mappings \in InputMappings
  /\ insertion \in KeyOrders
  /\ loaded = normalize(EmptyObject)
  /\ fields = loaded
  /\ output = EmptyObject
  /\ hook = useFetchOccurrencesRange
  /\ pc = "input"

\* the document is written again with its keys in another order
Reorder ==
  /\ pc = "normalized"
  /\ insertion' \in KeyOrders \ {insertion}
  /\ pc' = "reordered"
  /\ UNCHANGED <<mappings, loaded, fields, output, hook>>

\* normalize is called on the reordered document
NormalizeReordered ==
  /\ pc = "reordered"
  /\ fields' = normalize(mappings)
  /\ pc' = "renormalized"
  /\ UNCHANGED <<mappings, insertion, loaded, output, hook>>

NextOrder ==
  \/ Normalize
  \/ Reorder
  \/ NormalizeReordered

SpecOrder == InitOrder /\ [][NextOrder]_vars

(* deNormalize called twice on the state that normalize returned: output  *)
(* holds both results.                                                     *)

DeNormalizeAgain ==
  /\ pc = "denormalized"
  /\ output' = [first |-> output, second |-> deNormalize(fields)]
  /\ fields' = deNormalizeArgument(fields)
  /\ pc' = "denormalizedTwice"
  /\ UNCHANGED <<mappings, insertion, loaded, hook>>

NextTwice ==
  \/ Normalize
  \/ DeNormalize
  \/ DeNormalizeAgain

SpecTwice == Init /\ [][NextTwice]_vars

(* The traversal helpers, called on a loaded document and on a document    *)
(* one of whose entries a partial update has removed from byId while its   *)
(* parent still lists it.                                                  *)

\* a partial update removes the entry of id and leaves the lists alone
DropEntry(id) ==
  /\ pc = "normalized"
  /\ id \in DOMAIN fields.byId
  /\ fields' = [fields EXCEPT !.byId = Omit(fields.byId, {id})]
  /\ pc' = "stale"
  /\ UNCHANGED <<mappings, insertion, loaded, output, hook>>

\* the three helpers are called on the field id
Traverse(id) ==
  /\ pc \in {"normalized", "stale"}
  /\ id \in DOMAIN fields.byId
  /\ output' = [field |-> id,
                children |-> getAllChildFields(fields.byId[id], fields.byId),
                aliases |-> getAllDescendantAliases(fields.byId[id], fields, <<>>),
                ancestors |-> getFieldAncestors(id, fields.byId)]
  /\ pc' = IF pc = "stale" THEN "traversedStale" ELSE "traversed"
  /\ UNCHANGED <<mappings, insertion, loaded, fields, hook>>

NextTraverse ==
  \/ Normalize
  \/ \E id \in DOMAIN fields.byId : DropEntry(id)
  \/ \E id \in DOMAIN fields.byId : Traverse(id)

\* documents of five fields: a root with two children, the first of which
\* has a child of its own, and a root alias
BranchingMappings ==
  {("a" :> (p[1] @@ (p[2] :> (("a" :> (q[1] @@ (q[2] :> ("a" :> leaf))))
                               @@ ("a.a" :> sibling)))))
     @@ ("a.a" :> [type |-> "alias", path |-> target]) :
     target \in {"a.a", "a.a.a"}, p \in ParentFields, q \in ParentFields,
     leaf \in LeafFields \cup {[type |-> "alias", path |-> "a"]},
     sibling \in LeafFields \cup {[type |-> "alias", path |-> "a"]}}

InitTraverse ==
  /\ mappings \in InputMappings \cup BranchingMappings
  /\ insertion = NameOrder
  /\ loaded = normalize(EmptyObject)
  /\ fields = loaded
  /\ output = EmptyObject
  /\ hook = useFetchOccurrencesRange
  /\ pc = "input"

SpecTraverse == InitTraverse /\ [][NextTraverse]_vars

(* Calls of the lookup helpers: mappings holds the name of the function    *)
(* and its arguments, output the outcome of the call.                      *)

ParameterNames == DOMAIN PARAMETERS_DEFINITION \cup {"unknown_param"}

PropNames == {Undefined, "min", "max", "unknown_prop"}

GetFieldConfigCalls ==
  {[fn |-> "getFieldConfig", param |-> param, prop |-> prop] :
     param \in ParameterNames, prop \in PropNames}

SourceTypes ==
  DOMAIN MAIN_DATA_TYPE_DEFINITION \cup DOMAIN SUB_TYPE_MAP_TO_MAIN
    \cup {"unknown_type", "histogram"}

GetTypeMetaFromSourceCalls ==
  {[fn |-> "getTypeMetaFromSource", sourceType |-> t] : t \in SourceTypes}

\* the values that are no plain object
Scalars ==
  { JsUndefined, JsNull, JsBoolean(FALSE), JsNumber(0), JsNumber(1),
    JsString(""), JsArray(<<JsUndefined>>), JsDate }

\* the objects with key a, or not, holding one of as and key b, or not,
\* holding one of bs
ObjectsOver(as, bs) ==
  {a @@ b : a \in {EmptyObject} \cup {"a" :> v : v \in as},
            b \in {EmptyObject} \cup {"b" :> v : v \in bs}}

\* the objects nested depth levels deep: key b holds undefined or a
\* number, key a these or an object one level less deep
RECURSIVE NestedObjects(_)
NestedObjects(depth) ==
  LET plain == {JsUndefined, JsNumber(2)}
      inner == IF depth = 1 THEN {}
               ELSE {JsObject(o) : o \in NestedObjects(depth - 1)}
  IN  ObjectsOver(plain \cup inner, plain)

\* the objects given to stripUndefinedValues: key b holds a value that is
\* no plain object, key a such a value or a nested object
StripObjects ==
  ObjectsOver(Scalars \cup {JsObject(o) : o \in NestedObjects(MaxDepth - 1)}, Scalars)

\* stripUndefinedValues(obj), (obj, true) and (obj, false)
StripUndefinedValuesCalls ==
  {[fn |-> "stripUndefinedValues", args |-> args] :
     args \in UNION {{<<obj>>, <<obj, TRUE>>, <<obj, FALSE>>} : obj \in StripObjects}}

\* data types: the types without multi-fields, the two types with
\* properties, and some of the others
DataTypes ==
  fieldsWithoutMultiFields
    \cup {"object", "nested", "text", "keyword", "boolean", "date", "ip",
          "integer", "binary", "alias", "other"}

\* a field of every data type: alone, with properties, with fields
TypedFields ==
  UNION {{[type |-> t],
          [type |-> t, properties |-> [a |-> [type |-> t]]],
          [type |-> t, fields |-> [a |-> [type |-> t]]]} : t \in DataTypes}

TypedMappings == {[a |-> f] : f \in TypedFields}

\* a change from every data type to every data type
TypeChangeCalls ==
  {[fn |-> "shouldDeleteChildFieldsAfterTypeChange", oldType |-> o, newType |-> n] :
     o \in DataTypes, n \in DataTypes}

Calls ==
  GetFieldConfigCalls \cup GetTypeMetaFromSourceCalls \cup StripUndefinedValuesCalls
    \cup TypeChangeCalls

ShouldDeleteChildFieldsAfterTypeChange ==
  /\ pc = "call"
  /\ mappings.fn = "shouldDeleteChildFieldsAfterTypeChange"
  /\ output' = Returns(shouldDeleteChildFieldsAfterTypeChange(mappings.oldType,
                                                              mappings.newType))
  /\ pc' = "returned"
  /\ UNCHANGED <<mappings, insertion, loaded, fields, hook>>

\* fields that declare no type, and fields that declare one beside
\* properties, alone and as a multi-field
UntypedFields ==
  LET plain == { EmptyObject,
                 [properties |-> EmptyObject],
                 [properties |-> [a |-> EmptyObject]],
                 [properties |-> [a |-> [properties |-> [a |-> EmptyObject]]]],
                 [properties |-> [a |-> [properties |-> EmptyObject]]],
                 [fields |-> [a |-> EmptyObject]],
                 [fields |-> EmptyObject],
                 [type |-> "text", properties |-> [a |-> EmptyObject]],
                 [type |-> "nested", properties |-> EmptyObject] }
  IN  plain \cup {[type |-> "text", fields |-> [a |-> f]] : f \in plain}

UntypedMappings == {[a |-> f] : f \in UntypedFields}

InitCalls ==
  /\ \/ mappings \in Calls /\ pc = "call"
     \/ mappings \in TypedMappings \cup UntypedMappings /\ pc = "input"
  /\ insertion = NameOrder
  /\ loaded = normalize(EmptyObject)
  /\ fields = loaded
  /\ output = EmptyObject
  /\ hook = useFetchOccurrencesRange

GetFieldConfig ==
  /\ pc = "call"
  /\ mappings.fn = "getFieldConfig"
  /\ output' = getFieldConfig(mappings.param, mappings.prop)
  /\ pc' = "returned"
  /\ UNCHANGED <<mappings, insertion, loaded, fields, hook>>

GetTypeMetaFromSource ==
  /\ pc = "call"
  /\ mappings.fn = "getTypeMetaFromSource"
  /\ output' = getTypeMetaFromSource(mappings.sourceType)
  /\ pc' = "returned"
  /\ UNCHANGED <<mappings, insertion, loaded, fields, hook>>

\* recursive = true when the second argument is left out
StripUndefinedValues ==
  /\ pc = "call"
  /\ mappings.fn = "stripUndefinedValues"
  /\ LET recursive == IF Len(mappings.args) < 2 THEN TRUE ELSE mappings.args[2]
     IN  output' = Returns(stripUndefinedValues(mappings.args[1], recursive))
  /\ pc' = "returned"
  /\ UNCHANGED <<mappings, insertion, loaded, fields, hook>>

NextCalls ==
  \/ GetFieldConfig
  \/ GetTypeMetaFromSource
  \/ StripUndefinedValues
  \/ ShouldDeleteChildFieldsAfterTypeChange
  \/ Normalize

SpecCalls == InitCalls /\ [][NextCalls]_vars

(* A mounted useFetchOccurrencesRange: fetchOccurrences is invoked by the  *)
(* effect and by refetch, each search settles at some later time, the      *)
(* component unmounts at any time.                                         *)

InitHook ==
  /\ mappings = EmptyObject
  /\ insertion = NameOrder
  /\ loaded = normalize(EmptyObject)
  /\ fields = loaded
  /\ output = EmptyObject
  /\ pc = "mounted"
  /\ hook = useFetchOccurrencesRange

\* invocation i runs to its await, or to its end when no search is made;
\* searches is dataView?.isTimeBased() && query
FetchOccurrences(i, searches) ==
  /\ hook.at[i] = "idle"
  /\ \A j \in Invocations : j < i => hook.at[j] # "idle"
  /\ hook' = IF searches /\ hook.mountedRef
             THEN [Abort(hook) EXCEPT !.abortControllerRef = i, !.at[i] = "awaiting"]
             ELSE SetRangeAndReturn(hook, i, "null")
  /\ UNCHANGED <<mappings, insertion, loaded, fields, output, pc>>

\* the search of invocation i settles and the invocation runs to its end
SearchSettles(i, outcome) ==
  /\ hook.at[i] = "awaiting"
  /\ outcome \in SearchOutcomes(hook, i)
  /\ hook' = SetRangeAndReturn(hook, i,
               IF outcome \in {"AbortError", "Error"} THEN "null" ELSE outcome)
  /\ UNCHANGED <<mappings, insertion, loaded, fields, output, pc>>

\* the cleanup of the first effect
Unmount ==
  /\ hook.mountedRef
  /\ hook' = [Abort(hook) EXCEPT !.mountedRef = FALSE, !.rangeAtUnmount = hook.range]
  /\ UNCHANGED <<mappings, insertion, loaded, fields, output, pc>>

NextHook ==
  \/ \E i \in Invocations, searches \in BOOLEAN : FetchOccurrences(i, searches)
  \/ \E i \in Invocations, outcome \in {"AbortError", "Error", "null"} \cup
                              {"range" \o ToString(j) : j \in Invocations} :
       SearchSettles(i, outcome)
  \/ Unmount

SpecHook == InitHook /\ [][NextHook]_vars

(* ---------------------------------------------------------------------- *)
(* Properties                                                              *)
(* ---------------------------------------------------------------------- *)

\* fields is the output of normalize for the loaded document, no rename applied
JustNormalized == pc = "normalized" /\ fields = loaded

\* output is deNormalize(normalize(mappings)), no rename in between
RoundTripDone == pc = "denormalized" /\ fields = loaded

\* the elements of an array
Elems(seq) == {seq[i] : i \in 1..Len(seq)}

\* the last element of a non-empty array
Last(seq) == seq[Len(seq)]

\* the definition that the input document gives for the field loaded as id
RECURSIVE InputField(_)
InputField(id) ==
  LET f == loaded.byId[id]
  IN  IF Has(f, "parentId")
      THEN InputField(f.parentId)[loaded.byId[f.parentId].childFieldsName][Last(f.path)]
      ELSE mappings[Last(f.path)]

\* the ids of the alias fields that declare a path
AliasIds ==
  {id \in DOMAIN loaded.byId :
     TypeOf(loaded.byId[id].source) = "alias" /\ Has(InputField(id), "path")}

\* the dotted path that the input document declares for alias id
DeclaredPath(id) == InputField(id).path

\* the fields whose joined path is the declared path of alias id
Targets(id) ==
  {t \in DOMAIN loaded.byId : Join(loaded.byId[t].path) = DeclaredPath(id)}

\* every field of the document is normalized and nothing is inferred: no
\* field has properties without a type, and every child container is not
\* empty, sits under the key of its field's type and is not in a multi-field
RECURSIVE KeepsAllFields(_, _)
KeepsAllFields(tree, isMultiField) ==
  \A n \in DOMAIN tree :
    LET f == tree[n]
        key == getChildFieldsName(TypeOf(f))
    IN  /\ ~(~Has(f, "type") /\ Has(f, "properties"))
        /\ \A k \in {"properties", "fields"} :
             Has(f, k) =>
               /\ k = key
               /\ ~isMultiField
               /\ DOMAIN f[k] # {}
               /\ KeepsAllFields(f[k], key = "fields")

\* the definition that the serialized document holds for field id
RECURSIVE OutputField(_)
OutputField(id) ==
  LET f == fields.byId[id]
  IN  IF Has(f, "parentId")
      THEN OutputField(f.parentId)[fields.byId[f.parentId].childFieldsName][f.source.name]
      ELSE output[f.source.name]

\* C1 as stated: for every mapping tree with unique sibling names,
\* deNormalize(normalize(m)) equals m up to key order.
C1_RoundTripEveryTree == RoundTripDone => output = mappings

\* C1 (amended): for every mapping tree in which no field has properties
\* without a type and every child container is non-empty, under the key of
\* its field's type and outside multi-fields, deNormalize(normalize(m))
\* equals m up to key order.
C1_RoundTrip ==
  (RoundTripDone /\ KeepsAllFields(mappings, FALSE)) => output = mappings

C1_Witness ==
  /\ RoundTripDone
  /\ KeepsAllFields(mappings, FALSE)
  /\ Cardinality(DOMAIN fields.byId) = 3
  /\ DOMAIN fields.aliases # {}
  /\ \E id \in DOMAIN fields.byId : Has(fields.byId[id], "childFields")
  /\ output = mappings

\* C2 as stated: for every alias and every field t whose joined path is the
\* alias's declared path, after normalize source.path is t's id and
\* aliases[t.id] holds the alias; after deNormalize the path is the declared one.
C2_AliasResolvedToEveryMatch ==
  \A id \in AliasIds : \A t \in Targets(id) :
    /\ JustNormalized =>
         /\ fields.byId[id].source.path = t
         /\ Has(fields.aliases, t)
         /\ id \in Elems(fields.aliases[t])
    /\ RoundTripDone => OutputField(id).path = DeclaredPath(id)

\* C2 (amended): for every alias whose declared path is the joined path of
\* some field, after normalize source.path is the id of one field t with that
\* joined path and aliases[t.id] holds the alias's id; after deNormalize the
\* alias's path is the declared dotted path again.
C2_AliasResolved ==
  \A id \in AliasIds :
    Targets(id) # {} =>
      /\ JustNormalized =>
           LET t == fields.byId[id].source.path
           IN  /\ t \in Targets(id)
               /\ Has(fields.aliases, t)
               /\ id \in Elems(fields.aliases[t])
      /\ RoundTripDone => OutputField(id).path = DeclaredPath(id)

C2_Witness ==
  /\ RoundTripDone
  /\ \E id \in AliasIds :
       /\ Targets(id) # {}
       /\ id \notin Targets(id)
       /\ fields.byId[id].source.path \in Targets(id)
       /\ OutputField(id).path = DeclaredPath(id)

\* C3: an alias whose declared path is the joined path of no field keeps
\* that path in source.path, its id is in no list of aliases and aliases
\* has no key for the path.
C3_UnresolvedAlias ==
  JustNormalized =>
    \A id \in AliasIds :
      Targets(id) = {} =>
        /\ fields.byId[id].source.path = DeclaredPath(id)
        /\ \A t \in DOMAIN fields.aliases : id \notin Elems(fields.aliases[t])
        /\ DeclaredPath(id) \notin DOMAIN fields.aliases

C3_Witness ==
  /\ JustNormalized
  /\ \E id \in AliasIds : Targets(id) = {} /\ fields.byId[id].source.path = "a.a"
  /\ Cardinality(DOMAIN fields.byId) >= 2

\* C4: a child inside a multi-field container (the parent's childFieldsName
\* is "fields") has the nestedDepth of its parent.
C4_MultiFieldKeepsDepth ==
  pc # "input" =>
    \A id \in DOMAIN fields.byId :
      LET f == fields.byId[id]
      IN  (Has(f, "parentId") /\ fields.byId[f.parentId].childFieldsName = "fields")
            => f.nestedDepth = fields.byId[f.parentId].nestedDepth

\* C5: root-level fields have nestedDepth 0 and a child inside an object or
\* nested container (the parent's childFieldsName is "properties") has
\* nestedDepth parent.nestedDepth + 1.
C5_PropertiesDepth ==
  pc # "input" =>
    \A id \in DOMAIN fields.byId :
      LET f == fields.byId[id]
      IN  /\ id \in Elems(fields.rootLevelFields) => f.nestedDepth = 0
          /\ (Has(f, "parentId") /\ fields.byId[f.parentId].childFieldsName = "properties")
               => f.nestedDepth = fields.byId[f.parentId].nestedDepth + 1

C5_Witness ==
  /\ JustNormalized
  /\ \E id \in DOMAIN fields.byId :
       /\ Has(fields.byId[id], "parentId")
       /\ fields.byId[fields.byId[id].parentId].childFieldsName = "properties"
       /\ fields.byId[id].nestedDepth = 2

\* C6: maxNestedDepth is the largest nestedDepth of the fields of byId (0 when
\* there is none): it equals getMaxNestedDepth(byId).
C6_MaxNestedDepth ==
  pc # "input" =>
    /\ fields.maxNestedDepth = getMaxNestedDepth(fields.byId)
    /\ \A id \in DOMAIN fields.byId : fields.byId[id].nestedDepth <= fields.maxNestedDepth
    /\ \/ \E id \in DOMAIN fields.byId : fields.byId[id].nestedDepth = fields.maxNestedDepth
       \/ (DOMAIN fields.byId = {} /\ fields.maxNestedDepth = 0)

C6_Witness ==
  /\ JustNormalized
  /\ fields.maxNestedDepth = 2
  /\ fields.maxNestedDepth = getMaxNestedDepth(fields.byId)
  /\ \E id \in DOMAIN fields.byId : fields.byId[id].nestedDepth < fields.maxNestedDepth

\* C7: every id of rootLevelFields, of any childFields, of any aliases list,
\* and every aliases key, is a key of byId: after normalize and after renames.
C7_ReferentialIntegrity ==
  pc # "input" =>
    /\ Elems(fields.rootLevelFields) \subseteq DOMAIN fields.byId
    /\ \A id \in DOMAIN fields.byId :
         Has(fields.byId[id], "childFields")
           => Elems(fields.byId[id].childFields) \subseteq DOMAIN fields.byId
    /\ \A t \in DOMAIN fields.aliases :
         t \in DOMAIN fields.byId /\ Elems(fields.aliases[t]) \subseteq DOMAIN fields.byId

C7_Witness ==
  /\ pc = "normalized"
  /\ fields # loaded
  /\ DOMAIN fields.aliases # {}
  /\ \E id \in DOMAIN fields.byId : Has(fields.byId[id], "childFields")
  /\ Cardinality(DOMAIN fields.byId) = 3

\* the ids met from ids through childFields, parents before children; fuel
\* bounds the depth of the walk
RECURSIVE ReachableIds(_, _, _)
ReachableIds(ids, byId, fuel) ==
  IF ids = <<>> \/ fuel = 0 THEN <<>>
  ELSE LET id == Head(ids)
           below ==
             IF Has(byId, id) /\ Has(byId[id], "childFields")
             THEN ReachableIds(byId[id].childFields, byId, fuel - 1)
             ELSE <<>>
       IN  <<id>> \o below \o ReachableIds(Tail(ids), byId, fuel)

\* C8: every field reachable from rootLevelFields through childFields is in
\* byId exactly once: no id is listed twice and byId has as many keys as
\* there are reachable ids.
C8_ExactlyOnce ==
  JustNormalized =>
    LET reached == ReachableIds(fields.rootLevelFields, fields.byId, MaxFields + 2)
    IN  /\ \A i, j \in 1..Len(reached) : reached[i] = reached[j] => i = j
        /\ Elems(reached) = DOMAIN fields.byId
        /\ Len(reached) = Cardinality(DOMAIN fields.byId)

C8_Witness ==
  /\ JustNormalized
  /\ Len(fields.rootLevelFields) = 2
  /\ Cardinality(DOMAIN fields.byId) = 3

\* C9: after normalize and after any sequence of renames, the path of a field
\* is the path of its parent followed by its own source.name, and the path of
\* a root field is [source.name].
C9_PathInvariant ==
  pc # "input" =>
    \A id \in DOMAIN fields.byId :
      LET f == fields.byId[id]
      IN  f.path = (IF Has(f, "parentId") THEN fields.byId[f.parentId].path ELSE <<>>)
                     \o <<f.source.name>>

C9_Witness ==
  /\ pc = "normalized"
  /\ \E id \in DOMAIN fields.byId :
       /\ Len(fields.byId[id].path) = 3
       /\ fields.byId[id].path[1] # loaded.byId[id].path[1]
       /\ fields.byId[id].path[2] # loaded.byId[id].path[2]

\* C10 as stated: every alias field holds in source.path the id of a field
\* of byId.
C10_AliasHoldsId ==
  JustNormalized =>
    \A id \in DOMAIN fields.byId :
      TypeOf(fields.byId[id].source) = "alias"
        => fields.byId[id].source.path \in DOMAIN fields.byId

\* C10 (amended): an alias field holds in source.path the id of a field of
\* byId exactly when its declared path is the joined path of some field; an
\* alias whose path matches no field holds no id.
C10_ResolvedAliasHoldsId ==
  pc # "input" =>
    \A id \in AliasIds :
      fields.byId[id].source.path \in DOMAIN fields.byId <=> Targets(id) # {}

C10_Witness ==
  /\ JustNormalized
  /\ \E id \in AliasIds :
       /\ Targets(id) # {}
       /\ fields.byId[id].source.path \in DOMAIN fields.byId \ {id}
       /\ fields.byId[id].source.path # DeclaredPath(id)


\* a list of ids is in ascending order of the names of its fields
SortedByName(ids, byId) ==
  \A i \in 1..(Len(ids) - 1) :
    StrLess(byId[ids[i]].source.name, byId[ids[i + 1]].source.name)

\* the paths of a list of ids
PathsOf(ids, byId) == [i \in 1..Len(ids) |-> byId[ids[i]].path]

\* a normalized field with every id in it replaced by the path of that field
FieldByPath(f, byId) ==
  Omit(f, {"id", "parentId", "childFields", "source"})
    @@ [source |->
          IF TypeOf(f.source) = "alias" /\ Has(f.source, "path")
             /\ f.source.path \in DOMAIN byId
          THEN Put(f.source, "path", byId[f.source.path].path)
          ELSE f.source]
    @@ (IF Has(f, "parentId") THEN [parent |-> byId[f.parentId].path] ELSE EmptyObject)
    @@ (IF Has(f, "childFields") THEN [children |-> PathsOf(f.childFields, byId)]
        ELSE EmptyObject)

\* a NormalizedFields with ids replaced by paths
ByPath(nf) ==
  [ byPath |->
      [p \in {nf.byId[id].path : id \in DOMAIN nf.byId} |->
         LET id == CHOOSE i \in DOMAIN nf.byId : nf.byId[i].path = p
         IN  FieldByPath(nf.byId[id], nf.byId)],
    rootLevelFields |-> PathsOf(nf.rootLevelFields, nf.byId),
    aliases |->
      [p \in {nf.byId[t].path : t \in DOMAIN nf.aliases} |->
         LET t == CHOOSE i \in DOMAIN nf.aliases : nf.byId[i].path = p
         IN  PathsOf(nf.aliases[t], nf.byId)],
    maxNestedDepth |-> nf.maxNestedDepth ]

\* C11: whatever the insertion order of the keys, rootLevelFields and every
\* childFields list of normalize are in ascending name order, and two
\* normalizations of one document written in two key orders are identical
\* once ids are replaced by paths.
C11_Determinism ==
  /\ pc \in {"normalized", "renormalized"} =>
       /\ SortedByName(fields.rootLevelFields, fields.byId)
       /\ \A id \in DOMAIN fields.byId :
            Has(fields.byId[id], "childFields")
              => SortedByName(fields.byId[id].childFields, fields.byId)
  /\ pc = "renormalized" => ByPath(fields) = ByPath(loaded)

C11_Witness ==
  /\ pc = "renormalized"
  /\ insertion = <<"a.a", "a">>
  /\ Len(fields.rootLevelFields) = 2
  /\ DOMAIN fields.aliases # {}
  /\ ByPath(fields) = ByPath(loaded)


\* field id and the fields below it
Subtree(id, byId) == Elems(ReachableIds(<<id>>, byId, MaxFields + 2))

\* the step is a rename: the editor has replaced fields.byId by the
\* updatedById computed for a field carrying a new source.name
RenameStep == pc = "normalized" /\ pc' = "normalized" /\ fields' # fields

\* C12: the map returned by updateFieldsPathAfterFieldNameChange has the
\* keys of the input map; entries outside the subtree of the renamed field
\* are the entries of the input; inside it only path differs from the input
\* (the renamed field being the field argument, which carries the new name).
C12_RenameFrame ==
  [][RenameStep =>
       /\ DOMAIN fields'.byId = DOMAIN fields.byId
       /\ Omit(fields', {"byId"}) = Omit(fields, {"byId"})
       /\ \E r \in DOMAIN fields.byId :
            /\ fields'.byId[r].source.name # fields.byId[r].source.name
            /\ \A k \in DOMAIN fields.byId \ Subtree(r, fields.byId) :
                 fields'.byId[k] = fields.byId[k]
            /\ \A k \in Subtree(r, fields.byId) \ {r} :
                 Omit(fields'.byId[k], {"path"}) = Omit(fields.byId[k], {"path"})
            /\ Omit(fields'.byId[r], {"path"})
                 = Omit([fields.byId[r] EXCEPT
                           !.source.name = fields'.byId[r].source.name],
                        {"path"})]_vars

C12_Witness ==
  /\ pc = "normalized"
  /\ \E r, k, o \in DOMAIN fields.byId :
       /\ fields.byId[r].source.name # loaded.byId[r].source.name
       /\ k \in Subtree(r, fields.byId) \ {r}
       /\ fields.byId[k].path # loaded.byId[k].path
       /\ Omit(fields.byId[k], {"path"}) = Omit(loaded.byId[k], {"path"})
       /\ o \notin Subtree(r, fields.byId)
       /\ fields.byId[o] = loaded.byId[o]


\* some list of child ids names a field that byId does not hold
HasDanglingChild ==
  \E p \in DOMAIN fields.byId :
    /\ Has(fields.byId[p], "childFields")
    /\ \E c \in Elems(fields.byId[p].childFields) : ~Has(fields.byId, c)

\* C13: on a state in which a childFields list names an id absent from
\* byId, getAllChildFields, getAllDescendantAliases and getFieldAncestors
\* return normally; the fields returned are entries of byId, the alias ids
\* returned are recorded for entries of byId, the ancestors are keys of byId.
C13_ToleratesDangling ==
  (pc = "traversedStale" /\ HasDanglingChild) =>
    /\ ~output.children.threw
    /\ \A f \in Elems(output.children.value) :
         Has(fields.byId, f.id) /\ fields.byId[f.id] = f
    /\ \A a \in Elems(output.aliases) :
         \E t \in DOMAIN fields.byId :
           Has(fields.aliases, t) /\ a \in Elems(fields.aliases[t])
    /\ DOMAIN output.ancestors \subseteq DOMAIN fields.byId


\* getFieldConfig has returned or thrown
FieldConfigCalled == pc = "returned" /\ mappings.fn = "getFieldConfig"

\* C14: when the parameter name, or the prop under the parameter, is not
\* registered in PARAMETERS_DEFINITION, getFieldConfig raises an error whose
\* message carries the unregistered name; it returns no configuration.
C14_UnregisteredRaises ==
  FieldConfigCalled =>
    /\ ~Has(PARAMETERS_DEFINITION, mappings.param) =>
         output.threw /\ mappings.param \in Elems(output.carries)
    /\ ( /\ Has(PARAMETERS_DEFINITION, mappings.param)
         /\ mappings.prop # Undefined
         /\ \/ ~Has(PARAMETERS_DEFINITION[mappings.param], "props")
            \/ ~Has(PARAMETERS_DEFINITION[mappings.param].props, mappings.prop) ) =>
         output.threw /\ mappings.prop \in Elems(output.carries)

\* getTypeMetaFromSource has returned or thrown
TypeMetaCalled == pc = "returned" /\ mappings.fn = "getTypeMetaFromSource"

\* C15: getTypeMetaFromSource(s) raises an error carrying s when s is no
\* key of MAIN_DATA_TYPE_DEFINITION and no key of SUB_TYPE_MAP_TO_MAIN;
\* returns {mainType: s} for a main type; returns the mapped main type and
\* subType s for a sub-type.
C15_TypeMeta ==
  TypeMetaCalled =>
    LET s == mappings.sourceType
    IN  IF Has(MAIN_DATA_TYPE_DEFINITION, s)
        THEN ~output.threw /\ output.value = [mainType |-> s]
        ELSE IF Has(SUB_TYPE_MAP_TO_MAIN, s)
        THEN /\ ~output.threw
             /\ output.value = [mainType |-> SUB_TYPE_MAP_TO_MAIN[s], subType |-> s]
        ELSE output.threw /\ s \in Elems(output.carries)


\* the childFieldsName of a normalized field, undefined when it has none
ChildFieldsNameOf(f) == IF Has(f, "childFieldsName") THEN f.childFieldsName ELSE Undefined

IsProperPrefix(p, q) == Len(p) < Len(q) /\ \A i \in 1..Len(p) : p[i] = q[i]

\* the fields below a: those whose path extends the path of a
Below(a) ==
  {d \in DOMAIN fields.byId :
     IsProperPrefix(fields.byId[a].path, fields.byId[d].path)}

\* the ids of the fields that getAllChildFields returned
ChildIds == [i \in 1..Len(output.children.value) |-> output.children.value[i].id]

\* C17: for a field f of a normalize output, getAllChildFields(f, byId)
\* returns the fields below f, each once and never f, every field followed
\* at once by all the fields below it, the children of one field in the
\* order of its childFields.
C17_PreOrder ==
  pc = "traversed" =>
    /\ ~output.children.threw
    /\ \A i \in 1..Len(ChildIds) : output.children.value[i] = fields.byId[ChildIds[i]]
    /\ Elems(ChildIds) = Below(output.field)
    /\ Len(ChildIds) = Cardinality(Below(output.field))
    /\ output.field \notin Elems(ChildIds)
    /\ \A i \in 1..Len(ChildIds) :
         LET n == Cardinality(Below(ChildIds[i]))
         IN  /\ i + n <= Len(ChildIds)
             /\ {ChildIds[j] : j \in (i + 1)..(i + n)} = Below(ChildIds[i])
    /\ \A parent \in {output.field} \cup Elems(ChildIds) :
         Has(fields.byId[parent], "childFields") =>
           SelectSeq(ChildIds,
                     LAMBDA c : c \in Elems(fields.byId[parent].childFields))
             = fields.byId[parent].childFields

C17_Witness ==
  /\ pc = "traversed"
  /\ Len(ChildIds) = 3
  /\ ChildIds[2] \in Below(ChildIds[1])
  /\ ChildIds[3] \notin Below(ChildIds[1])
  /\ ~Has(fields.byId[output.field], "parentId")

\* C18: for a field f of a normalize output, getAllDescendantAliases(f,
\* fields) returns the alias ids that aliases records for f and for the
\* fields below f, each once, and no other.
C18_DescendantAliases ==
  pc = "traversed" =>
    LET within == ({output.field} \cup Below(output.field)) \cap DOMAIN fields.aliases
        recorded == UNION {Elems(fields.aliases[t]) : t \in within}
    IN  /\ Elems(output.aliases) = recorded
        /\ Len(output.aliases) = Cardinality(recorded)

C18_Witness ==
  /\ pc = "traversed"
  /\ output.aliases # <<>>
  /\ \E t \in Below(output.field) :
       Has(fields.aliases, t) /\ fields.aliases[t] # <<>>
  /\ \E t \in DOMAIN fields.aliases :
       /\ t \notin {output.field} \cup Below(output.field)
       /\ \E a \in Elems(fields.aliases[t]) : a \notin Elems(output.aliases)

\* C19: for a field id of a normalize output, getFieldAncestors(id, byId)
\* returns the ids of the fields that id lies below, never id itself: none
\* for a root field, path.length - 1 of them otherwise.
C19_Ancestors ==
  pc = "traversed" =>
    /\ DOMAIN output.ancestors
         = {a \in DOMAIN fields.byId : output.field \in Subtree(a, fields.byId) \ {a}}
    /\ \A a \in DOMAIN output.ancestors : output.ancestors[a] = TRUE
    /\ output.field \notin DOMAIN output.ancestors
    /\ Cardinality(DOMAIN output.ancestors) = Len(fields.byId[output.field].path) - 1
    /\ ~Has(fields.byId[output.field], "parentId") => output.ancestors = EmptyObject

C19_Witness ==
  /\ pc = "traversed"
  /\ Cardinality(DOMAIN output.ancestors) = 2
  /\ Len(fields.byId[output.field].path) = 3


\* stripUndefinedValues has returned
StripCalled == pc = "returned" /\ mappings.fn = "stripUndefinedValues"

\* no key of obj holds undefined, at any level of nested plain objects
RECURSIVE NoUndefinedValue(_)
NoUndefinedValue(obj) ==
  \A k \in DOMAIN obj :
    /\ obj[k] # JsUndefined
    /\ obj[k].kind = "object" => NoUndefinedValue(obj[k].entries)

\* out holds the keys of obj that do not hold undefined; values that are no
\* plain object are those of obj, plain objects are related in the same way
RECURSIVE KeepsDefined(_, _)
KeepsDefined(obj, out) ==
  /\ DOMAIN out = {k \in DOMAIN obj : obj[k].kind # "undefined"}
  /\ \A k \in DOMAIN out :
       IF obj[k].kind = "object"
       THEN out[k].kind = "object" /\ KeepsDefined(obj[k].entries, out[k].entries)
       ELSE out[k] = obj[k]

\* C20: stripUndefinedValues(obj, recursive) returns obj without the keys
\* that hold undefined; null, false, 0, '', arrays and Dates are kept as they
\* are; with recursive true or left out no key of a nested plain object holds
\* undefined any more, with recursive false nested objects are kept as they
\* are.
C20_StripUndefined ==
  StripCalled =>
    LET obj == mappings.args[1]
        recursive == IF Len(mappings.args) < 2 THEN TRUE ELSE mappings.args[2]
        out == output.value
    IN  /\ ~output.threw
        /\ DOMAIN out = {k \in DOMAIN obj : obj[k].kind # "undefined"}
        /\ \A k \in DOMAIN out :
             obj[k].kind \in {"null", "boolean", "number", "string", "array", "date"}
               => out[k] = obj[k]
        /\ recursive => NoUndefinedValue(out) /\ KeepsDefined(obj, out)
        /\ ~recursive => \A k \in DOMAIN out : out[k] = obj[k]

\* stripUndefinedValues({a: {a: {b: undefined}, b: 2}, b: undefined})
\* = {a: {a: {}, b: 2}}
C20_Witness ==
  /\ StripCalled
  /\ mappings.args = <<("a" :> JsObject(("a" :> JsObject(("b" :> JsUndefined)))
                                        @@ ("b" :> JsNumber(2))))
                       @@ ("b" :> JsUndefined)>>
  /\ output.value = ("a" :> JsObject(("a" :> JsObject(EmptyObject))
                                     @@ ("b" :> JsNumber(2))))


RECURSIVE DottedPath(_)
DottedPath(id) ==
  LET f == fields.byId[id]
  IN  IF Has(f, "parentId") THEN DottedPath(f.parentId) \o "." \o f.source.name
      ELSE f.source.name

\* the fields that have been given another name since the document was loaded
Renamed ==
  {id \in DOMAIN fields.byId : fields.byId[id].source.name # loaded.byId[id].source.name}

\* alias a resolved to target t when the document was loaded
ResolvedTo(a, t) == Has(loaded.aliases, t) /\ a \in Elems(loaded.aliases[t])

\* the parent of a field, undefined for a root field
ParentOf(f) == IF Has(f, "parentId") THEN f.parentId ELSE Undefined

\* no two fields under one parent have the same name (the document can be
\* written down: an object has one value per key)
SiblingNamesDiffer ==
  \A i, j \in DOMAIN fields.byId :
    (i # j /\ ParentOf(fields.byId[i]) = ParentOf(fields.byId[j]))
      => fields.byId[i].source.name # fields.byId[j].source.name

\* C22: when alias a resolved to target t at load and t or ancestors of t
\* have been renamed since, to names that no sibling has, deNormalize emits
\* a with the dotted path that t has now, and aliases still lists a under t.
C22_AliasFollowsRename ==
  (pc = "denormalized" /\ SiblingNamesDiffer) =>
    \A t \in DOMAIN loaded.aliases :
      \A a \in Elems(loaded.aliases[t]) :
        (Renamed # {} /\ Renamed \subseteq Subtree(t, fields.byId) \cup
                                            DOMAIN getFieldAncestors(t, fields.byId)
                      /\ Renamed \cap (Subtree(t, fields.byId) \ {t}) = {}) =>
          /\ OutputField(a).path = DottedPath(t)
          /\ Has(fields.aliases, t) /\ a \in Elems(fields.aliases[t])
          /\ fields.byId[a].source.path = t


C22_Witness ==
  /\ pc = "denormalized"
  /\ SiblingNamesDiffer
  /\ \E t \in DOMAIN loaded.aliases :
       \E a \in Elems(loaded.aliases[t]) :
         /\ a # t
         /\ Renamed # {}
         /\ Renamed \subseteq DOMAIN getFieldAncestors(t, fields.byId)
         /\ OutputField(a).path = DottedPath(t)
         /\ DottedPath(t) # Join(loaded.byId[t].path)


\* the names of the fields listed in the childFields of f, none without it
ChildNames(f) ==
  IF Has(f, "childFields")
  THEN {fields.byId[f.childFields[i]].source.name : i \in 1..Len(f.childFields)}
  ELSE {}

\* C23 as stated: a field without type gets source.type 'object' exactly
\* when properties holds children, and then has childFieldsName 'properties'
\* and its children in childFields; a declared type is kept.
C23_InferredWithChildren ==
  JustNormalized =>
    \A id \in DOMAIN fields.byId :
      LET f == fields.byId[id]
          declared == InputField(id)
      IN  IF Has(declared, "type") THEN TypeOf(f.source) = declared.type
          ELSE /\ TypeOf(f.source) = "object" <=> HasEntries(declared, "properties")
               /\ TypeOf(f.source) = "object" =>
                    /\ ChildFieldsNameOf(f) = "properties"
                    /\ Has(f, "childFields")
                    /\ ChildNames(f) = DOMAIN declared.properties

\* C23 (amended): a field without type gets source.type 'object' exactly
\* when it has a properties key, and then has childFieldsName 'properties';
\* the fields of properties are its childFields when it is no multi-field,
\* and it has childFields only when properties holds a field; a declared
\* type is kept.
C23_InferredWithProperties ==
  JustNormalized =>
    \A id \in DOMAIN fields.byId :
      LET f == fields.byId[id]
          declared == InputField(id)
      IN  IF Has(declared, "type") THEN TypeOf(f.source) = declared.type
          ELSE /\ TypeOf(f.source) = "object" <=> Has(declared, "properties")
               /\ ~Has(declared, "properties") => ~Has(f.source, "type")
               /\ Has(declared, "properties") =>
                    /\ ChildFieldsNameOf(f) = "properties"
                    /\ ChildNames(f) =
                         IF f.isMultiField THEN {} ELSE DOMAIN declared.properties
                    /\ Has(f, "childFields") <=>
                         (~f.isMultiField /\ DOMAIN declared.properties # {})

C23_Witness ==
  /\ JustNormalized
  /\ \E id, c \in DOMAIN fields.byId :
       /\ ~Has(InputField(id), "type")
       /\ TypeOf(fields.byId[id].source) = "object"
       /\ Has(fields.byId[id], "childFields")
       /\ fields.byId[id].childFields = <<c>>
       /\ ~Has(InputField(c), "type")
       /\ Has(InputField(c), "properties")
       /\ TypeOf(fields.byId[c].source) = "object"
       /\ ~Has(fields.byId[c], "childFields")


\* shouldDeleteChildFieldsAfterTypeChange has returned
TypeChangeCalled ==
  pc = "returned" /\ mappings.fn = "shouldDeleteChildFieldsAfterTypeChange"

\* C24: when shouldDeleteChildFieldsAfterTypeChange(oldType, newType)
\* returns false and oldType can have children, both types hold them under
\* the same key; text to keyword, keyword to text, object to nested and
\* nested to object return false.
C24_KeptUnderSameKey ==
  TypeChangeCalled =>
    /\ (~output.value /\ getChildFieldsName(mappings.oldType) # Undefined) =>
         getChildFieldsName(mappings.oldType) = getChildFieldsName(mappings.newType)
    /\ <<mappings.oldType, mappings.newType>> \in
         {<<"text", "keyword">>, <<"keyword", "text">>,
          <<"object", "nested">>, <<"nested", "object">>} => ~output.value


\* the ids listed in the childFields of field p
ChildIdsOf(p) ==
  IF Has(fields.byId[p], "childFields") THEN Elems(fields.byId[p].childFields) ELSE {}

\* following parentId from id ends at a root field within n steps
RECURSIVE ReachesRoot(_, _)
ReachesRoot(id, n) ==
  \/ ~Has(fields.byId[id], "parentId")
  \/ /\ n > 0
     /\ Has(fields.byId, fields.byId[id].parentId)
     /\ ReachesRoot(fields.byId[id].parentId, n - 1)

\* C25: in every normalize output, f.parentId is p.id exactly when f.id is in
\* p.childFields, f.parentId is undefined exactly when f.id is in
\* rootLevelFields, and the parentId links lead to a root.
C25_ParentChildAgree ==
  JustNormalized =>
    /\ \A f, p \in DOMAIN fields.byId :
         ParentOf(fields.byId[f]) = fields.byId[p].id <=> fields.byId[f].id \in ChildIdsOf(p)
    /\ \A f \in DOMAIN fields.byId :
         /\ ~Has(fields.byId[f], "parentId") <=> fields.byId[f].id \in Elems(fields.rootLevelFields)
         /\ ReachesRoot(f, Cardinality(DOMAIN fields.byId))

C25_Witness ==
  /\ JustNormalized
  /\ \E f, p, g \in DOMAIN fields.byId :
       /\ ParentOf(fields.byId[f]) = p
       /\ ParentOf(fields.byId[p]) = g
       /\ f \in ChildIdsOf(p)
       /\ p \in ChildIdsOf(g)
       /\ g \in Elems(fields.rootLevelFields)


\* C26: in every normalize output a field has childFields exactly when
\* hasChildFields or hasMultiFields is true, never both, and the list is
\* then non-empty; a multi-field has the four flags false and no
\* childFields; isMultiField holds exactly for the children of the fields
\* whose childFieldsName is 'fields'.
C26_MultiFieldsAreLeaves ==
  JustNormalized =>
    \A id \in DOMAIN fields.byId :
      LET f == fields.byId[id]
      IN  /\ Has(f, "childFields") <=> (f.hasChildFields \/ f.hasMultiFields)
          /\ ~(f.hasChildFields /\ f.hasMultiFields)
          /\ Has(f, "childFields") => f.childFields # <<>>
          /\ f.isMultiField =>
               /\ ~f.canHaveChildFields /\ ~f.canHaveMultiFields
               /\ ~f.hasChildFields /\ ~f.hasMultiFields
               /\ ~Has(f, "childFields")
          /\ f.isMultiField <=>
               /\ Has(f, "parentId")
               /\ ChildFieldsNameOf(fields.byId[f.parentId]) = "fields"

C26_Witness ==
  /\ JustNormalized
  /\ \E id \in DOMAIN fields.byId :
       /\ fields.byId[id].isMultiField
       /\ Has(InputField(id), "fields")
       /\ DOMAIN InputField(id).fields # {}
       /\ ~Has(fields.byId[id], "childFields")
       /\ fields.byId[fields.byId[id].parentId].hasMultiFields
       /\ id \in ChildIdsOf(fields.byId[id].parentId)


\* C27: when an invocation of fetchOccurrences has aborted the search of an
\* earlier one and both have returned on a mounted hook, range is what the
\* later one returned, as long as no newer invocation has set it: the
\* aborted invocation does not overwrite the range of the later one.
\* range does not change after the component has unmounted.
C27_LatestWins ==
  /\ \A i, j \in Invocations :
       ( /\ i < j
         /\ i \in hook.aborted
         /\ hook.mountedRef
         /\ hook.at[i] = "returned"
         /\ hook.at[j] = "returned"
         /\ \A k \in 1..Len(hook.setRange) : hook.setRange[k] <= j ) =>
       hook.range = hook.returned[j]
  /\ ~hook.mountedRef => hook.range = hook.rangeAtUnmount

====
